---- MODULE Spec2Model ----
(***************************************************************************)
(* Model of the id-contact auth-test provider (src/src/main.rs and         *)
(* src/src/config.rs): the six request handlers mounted by rocket(), the   *)
(* attribute catalog of Config, and the codecs the handlers use on URL     *)
(* segments (URL-safe unpadded base64, JSON array of strings, UTF-8).      *)
(*                                                                         *)
(* Text is a sequence of bytes (0..255); a Rust String is such a sequence  *)
(* that is valid UTF-8.                                                    *)
(***************************************************************************)
EXTENDS Integers, Sequences, FiniteSets, TLC

(* ------------------------------ bounds -------------------------------- *)

\* longest attribute list a relying party sends to start_authentication
MaxAttrs == 2
\* longest continuation URL (in characters) a relying party sends
MaxContLen == 2
\* longest callback URL (in characters) a relying party sends
MaxCbLen == 1
\* number of client connections the model tracks
NClients == 2

(* --------------------------- text helpers ----------------------------- *)

RECURSIVE Flatten(_)
\* concatenation of a sequence of byte sequences
Flatten(ss) ==
    IF ss = <<>> THEN <<>> ELSE Head(ss) \o Flatten(Tail(ss))

\* does text s contain byte b (str::contains with a char pattern)
Contains(s, b) == \E i \in 1..Len(s) : s[i] = b

\* all sequences over S of length at most n
SeqsUpTo(S, n) == UNION {[1..k -> S] : k \in 0..n}

IsPrefix(p, s) == Len(p) <= Len(s) /\ SubSeq(s, 1, Len(p)) = p

(* ------------------------ UTF-8 (std::str::from_utf8) ------------------ *)

IsCont(b) == b >= 128 /\ b <= 191

RECURSIVE Utf8From(_, _)
\* is bs[i..] a sequence of well-formed UTF-8 code points
Utf8From(bs, i) ==
    IF i > Len(bs) THEN TRUE
    ELSE LET b == bs[i]
             n == Len(bs)
             c(k) == IF i + k <= n THEN bs[i + k] ELSE 0
         IN  CASE b <= 127 -> Utf8From(bs, i + 1)
               [] b >= 194 /\ b <= 223 ->
                    IsCont(c(1)) /\ Utf8From(bs, i + 2)
               [] b = 224 ->
                    c(1) >= 160 /\ c(1) <= 191 /\ IsCont(c(2)) /\ Utf8From(bs, i + 3)
               [] (b >= 225 /\ b <= 236) \/ b = 238 \/ b = 239 ->
                    IsCont(c(1)) /\ IsCont(c(2)) /\ Utf8From(bs, i + 3)
               [] b = 237 ->
                    c(1) >= 128 /\ c(1) <= 159 /\ IsCont(c(2)) /\ Utf8From(bs, i + 3)
               [] b = 240 ->
                    c(1) >= 144 /\ c(1) <= 191 /\ IsCont(c(2)) /\ IsCont(c(3))
                    /\ Utf8From(bs, i + 4)
               [] b >= 241 /\ b <= 243 ->
                    IsCont(c(1)) /\ IsCont(c(2)) /\ IsCont(c(3)) /\ Utf8From(bs, i + 4)
               [] b = 244 ->
                    c(1) >= 128 /\ c(1) <= 143 /\ IsCont(c(2)) /\ IsCont(c(3))
                    /\ Utf8From(bs, i + 4)
               [] OTHER -> FALSE

\* std::str::from_utf8: Ok(the same bytes as text) or Err(Utf8Error)
from_utf8(bs) ==
    IF Utf8From(bs, 1) THEN [ok |-> TRUE, val |-> bs]
    ELSE [ok |-> FALSE, err |-> "Utf"]

(* ----------------- base64, URL_SAFE_NO_PAD configuration --------------- *)

\* the URL-safe alphabet: A-Z a-z 0-9 - _
B64Char(v) ==
    CASE v < 26 -> 65 + v
      [] v >= 26 /\ v < 52 -> 97 + (v - 26)
      [] v >= 52 /\ v < 62 -> 48 + (v - 52)
      [] v = 62 -> 45
      [] OTHER -> 95

\* value of an alphabet character, -1 for a byte outside the alphabet
B64Val(ch) ==
    CASE ch >= 65 /\ ch <= 90 -> ch - 65
      [] ch >= 97 /\ ch <= 122 -> ch - 97 + 26
      [] ch >= 48 /\ ch <= 57 -> ch - 48 + 52
      [] ch = 45 -> 62
      [] ch = 95 -> 63
      [] OTHER -> 0 - 1

RECURSIVE EncodeFrom(_, _)
EncodeFrom(bs, i) ==
    LET n == Len(bs) IN
    IF i > n THEN <<>>
    ELSE IF i = n THEN
        << B64Char(bs[i] \div 4), B64Char((bs[i] % 4) * 16) >>
    ELSE IF i + 1 = n THEN
        << B64Char(bs[i] \div 4),
           B64Char((bs[i] % 4) * 16 + bs[i + 1] \div 16),
           B64Char((bs[i + 1] % 16) * 4) >>
    ELSE
        << B64Char(bs[i] \div 4),
           B64Char((bs[i] % 4) * 16 + bs[i + 1] \div 16),
           B64Char((bs[i + 1] % 16) * 4 + bs[i + 2] \div 64),
           B64Char(bs[i + 2] % 64) >> \o EncodeFrom(bs, i + 3)

\* the encoding with the padded configuration URL_SAFE
encode_config_padded(bs) ==
    EncodeFrom(bs, 1)
        \o (IF Len(bs) % 3 = 1 THEN <<61, 61>>
            ELSE IF Len(bs) % 3 = 2 THEN <<61>> ELSE <<>>)

\* base64::encode_config(bytes, URL_SAFE_NO_PAD)
encode_config(bs) == EncodeFrom(bs, 1)

RECURSIVE DecodeFrom(_, _)
\* bytes of the symbols s[i..]; a last group of 2 or 3 symbols gives 1 or 2 bytes
DecodeFrom(s, i) ==
    LET n == Len(s)
        v(k) == B64Val(s[i + k])
    IN  IF i > n THEN <<>>
        ELSE IF i + 1 = n THEN
            << v(0) * 4 + v(1) \div 16 >>
        ELSE IF i + 2 = n THEN
            << v(0) * 4 + v(1) \div 16, (v(1) % 16) * 16 + v(2) \div 4 >>
        ELSE
            << v(0) * 4 + v(1) \div 16,
               (v(1) % 16) * 16 + v(2) \div 4,
               (v(2) % 4) * 64 + v(3) >> \o DecodeFrom(s, i + 4)

\* base64::decode_config(text, URL_SAFE_NO_PAD): fails on a byte outside the
\* alphabet (InvalidByte), on a length of 1 mod 4 (InvalidLength) and on a
\* last symbol with non-zero discarded bits (InvalidLastSymbol)
decode_config(s) ==
    LET n == Len(s) IN
    IF \E i \in 1..n : B64Val(s[i]) < 0 THEN [ok |-> FALSE, err |-> "Decode"]
    ELSE IF n % 4 = 1 THEN [ok |-> FALSE, err |-> "Decode"]
    ELSE IF n % 4 = 2 /\ B64Val(s[n]) % 16 # 0 THEN [ok |-> FALSE, err |-> "Decode"]
    ELSE IF n % 4 = 3 /\ B64Val(s[n]) % 4 # 0 THEN [ok |-> FALSE, err |-> "Decode"]
    ELSE [ok |-> TRUE, val |-> DecodeFrom(s, 1)]

(* ------------- JSON array of strings (serde_json, Vec<String>) --------- *)

\* serde_json's escape of one byte of a string
EscapeByte(b) ==
    CASE b = 34 -> <<92, 34>>
      [] b = 92 -> <<92, 92>>
      [] b = 8  -> <<92, 98>>
      [] b = 9  -> <<92, 116>>
      [] b = 10 -> <<92, 110>>
      [] b = 12 -> <<92, 102>>
      [] b = 13 -> <<92, 114>>
      [] OTHER  -> <<b>>

JsonString(s) == <<34>> \o Flatten([i \in 1..Len(s) |-> EscapeByte(s[i])]) \o <<34>>

RECURSIVE JsonItems(_, _)
JsonItems(list, i) ==
    IF i > Len(list) THEN <<>>
    ELSE (IF i > 1 THEN <<44>> ELSE <<>>) \o JsonString(list[i]) \o JsonItems(list, i + 1)

\* serde_json::to_vec(&Vec<String>): ["..","..",...]; it does not fail on strings
to_vec(list) == <<91>> \o JsonItems(list, 1) \o <<93>>

IsWs(b) == b \in {32, 9, 10, 13}

RECURSIVE SkipWs(_, _)
SkipWs(bs, i) ==
    IF i <= Len(bs) /\ IsWs(bs[i]) THEN SkipWs(bs, i + 1) ELSE i

At(bs, i) == IF i >= 1 /\ i <= Len(bs) THEN bs[i] ELSE 0 - 1

RECURSIVE ParseStringBody(_, _, _)
\* bs[i..] up to the closing quote; [ok, val, next]
ParseStringBody(bs, i, acc) ==
    LET b == At(bs, i)
        e == At(bs, i + 1)
    IN  CASE b = 34 -> [ok |-> TRUE, val |-> acc, next |-> i + 1]
          [] b = 92 /\ e \in {34, 92, 47} -> ParseStringBody(bs, i + 2, Append(acc, e))
          [] b = 92 /\ e = 98  -> ParseStringBody(bs, i + 2, Append(acc, 8))
          [] b = 92 /\ e = 116 -> ParseStringBody(bs, i + 2, Append(acc, 9))
          [] b = 92 /\ e = 110 -> ParseStringBody(bs, i + 2, Append(acc, 10))
          [] b = 92 /\ e = 102 -> ParseStringBody(bs, i + 2, Append(acc, 12))
          [] b = 92 /\ e = 114 -> ParseStringBody(bs, i + 2, Append(acc, 13))
          [] b >= 32 /\ b # 92 /\ b # 34 -> ParseStringBody(bs, i + 1, Append(acc, b))
          [] OTHER -> [ok |-> FALSE, val |-> <<>>, next |-> i]

RECURSIVE ParseElements(_, _, _)
\* elements of the array from bs[i] (the opening quote of one) to the closing ]
ParseElements(bs, i, acc) ==
    IF At(bs, i) # 34 THEN [ok |-> FALSE, val |-> <<>>, next |-> i]
    ELSE LET s == ParseStringBody(bs, i + 1, <<>>)
             j == SkipWs(bs, s.next)
         IN  IF ~s.ok THEN [ok |-> FALSE, val |-> <<>>, next |-> i]
             ELSE IF At(bs, j) = 44
                  THEN ParseElements(bs, SkipWs(bs, j + 1), Append(acc, s.val))
             ELSE IF At(bs, j) = 93
                  THEN [ok |-> TRUE, val |-> Append(acc, s.val), next |-> j + 1]
             ELSE [ok |-> FALSE, val |-> <<>>, next |-> j]

\* serde_json::from_slice::<Vec<String>>: the whole input is one array of
\* strings (whitespace allowed between tokens), else Err(serde_json::Error).
\* The \u escape is outside the inputs of this model.
from_slice(bs) ==
    LET i == SkipWs(bs, 1)
        j == SkipWs(bs, i + 1)
        r == IF At(bs, i) # 91 THEN [ok |-> FALSE, val |-> <<>>, next |-> i]
             ELSE IF At(bs, j) = 93 THEN [ok |-> TRUE, val |-> <<>>, next |-> j + 1]
             ELSE ParseElements(bs, j, <<>>)
    IN  IF Utf8From(bs, 1) /\ r.ok /\ SkipWs(bs, r.next) = Len(bs) + 1
        THEN [ok |-> TRUE, val |-> r.val]
        ELSE [ok |-> FALSE, err |-> "Json"]

(* ------------------------- config.rs: Config -------------------------- *)

Ok(v) == [ok |-> TRUE, val |-> v]
Err(e) == [ok |-> FALSE, err |-> e]
Some(v) == [some |-> TRUE, val |-> v]
None == [some |-> FALSE]

\* Error::UnknownAttribute(String)
UnknownAttribute(a) == [variant |-> "UnknownAttribute", attribute |-> a]

\* the attribute names relying parties ask for: "a", "\"", "x", "y"
AttrNames == { <<97>>, <<34>>, <<120>>, <<121>> }

\* RawConfig.attributes as configured: "a" -> "1", "\"" -> "2"
Catalog == (<<97>> :> <<49>>) @@ (<<34>> :> <<50>>)

\* RawConfig.server_url as configured: "s"
ServerUrl == <<115>>

\* the configured internal base URL: "i"
InternalUrl == <<105>>

\* InnerKeyConfig.key: a PEM the key parser accepts, and one it rejects
Pems == {"pem", "garbage"}

\* EncryptionKeyConfig::to_encrypter
to_encrypter(k) ==
    IF k.key # "pem" THEN Err([variant |-> "JWT"])
    ELSE IF k.type = "RSA" THEN Ok([alg |-> "RSA_OAEP", key |-> k.key])
    ELSE Ok([alg |-> "ECDH_ES", key |-> k.key])

\* SignKeyConfig::to_signer
to_signer(k) ==
    IF k.key # "pem" THEN Err([variant |-> "JWT"])
    ELSE IF k.type = "RSA" THEN Ok([alg |-> "RS256", key |-> k.key])
    ELSE Ok([alg |-> "ES256", key |-> k.key])

\* the configurations the deployment may be started with: with or without
\* sessions, both keys RSA or both EC, each PEM good or bad
RawConfigs ==
    { r \in [ server_url : {ServerUrl},
              internal_url : {InternalUrl},
              attributes : {Catalog},
              with_session : BOOLEAN,
              encryption_pubkey : [type : {"RSA", "EC"}, key : Pems],
              signing_privkey : [type : {"RSA", "EC"}, key : Pems] ] :
        r.encryption_pubkey.type = r.signing_privkey.type }

\* impl TryFrom<RawConfig> for Config
try_from(raw) ==
    LET e == to_encrypter(raw.encryption_pubkey)
        s == to_signer(raw.signing_privkey)
    IN  IF ~e.ok THEN Err(e.err)
        ELSE IF ~s.ok THEN Err(s.err)
        ELSE Ok([ server_url |-> raw.server_url,
                  internal_url |-> raw.internal_url,
                  attributes |-> raw.attributes,
                  with_session |-> raw.with_session,
                  encrypter |-> e.val,
                  signer |-> s.val ])

\* the loop of verify_attributes going through the whole list and reporting
\* the last name the catalog lacks
VerifyFrom_whole_list(cfg, attributes, i) ==
    LET bad == { j \in i..Len(attributes) : attributes[j] \notin DOMAIN cfg.attributes }
    IN  IF bad = {} THEN Ok(<<>>)
        ELSE Err(UnknownAttribute(attributes[CHOOSE j \in bad : \A k \in bad : k <= j]))

RECURSIVE VerifyFrom(_, _, _)
VerifyFrom(cfg, attributes, i) ==
    IF i > Len(attributes) THEN Ok(<<>>)
    ELSE IF attributes[i] \notin DOMAIN cfg.attributes
         THEN Err(UnknownAttribute(attributes[i]))
    ELSE VerifyFrom(cfg, attributes, i + 1)

\* verify_attributes looking at the first name only
verify_attributes_first_only(cfg, attributes) ==
    IF attributes # <<>> /\ attributes[1] \notin DOMAIN cfg.attributes
    THEN Err(UnknownAttribute(attributes[1]))
    ELSE Ok(<<>>)

\* Config::verify_attributes
verify_attributes(cfg, attributes) == VerifyFrom(cfg, attributes, 1)

\* an insert of the name where the value belongs
Insert_name_as_value(map, k, v) ==
    [x \in (DOMAIN map) \cup {k} |-> IF x = k THEN k ELSE map[x]]

\* HashMap::insert
Insert(map, k, v) ==
    [x \in (DOMAIN map) \cup {k} |-> IF x = k THEN v ELSE map[x]]

\* the loop of map_attributes leaving out the names the catalog lacks
RECURSIVE MapFrom_skip_unknown(_, _, _, _)
MapFrom_skip_unknown(cfg, attributes, i, result) ==
    IF i > Len(attributes) THEN Ok(result)
    ELSE IF attributes[i] \notin DOMAIN cfg.attributes
         THEN MapFrom_skip_unknown(cfg, attributes, i + 1, result)
    ELSE MapFrom_skip_unknown(cfg, attributes, i + 1,
                              Insert(result, attributes[i],
                                     cfg.attributes[attributes[i]]))

RECURSIVE MapFrom(_, _, _, _)
MapFrom(cfg, attributes, i, result) ==
    IF i > Len(attributes) THEN Ok(result)
    ELSE IF attributes[i] \notin DOMAIN cfg.attributes
         THEN Err(UnknownAttribute(attributes[i]))
    ELSE MapFrom(cfg, attributes, i + 1,
                 Insert(result, attributes[i], cfg.attributes[attributes[i]]))

\* map_attributes starting its loop at the second name
map_attributes_skip_first(cfg, attributes) == MapFrom(cfg, attributes, 2, <<>>)

\* Config::map_attributes
map_attributes(cfg, attributes) == MapFrom(cfg, attributes, 1, <<>>)

server_url(cfg) == cfg.server_url
with_session(cfg) == cfg.with_session
encrypter(cfg) == cfg.encrypter
signer(cfg) == cfg.signer
\* the accessor main.rs calls for the session notification base URL
internal_url(cfg) == cfg.internal_url

(* --------------------- collaborators of main.rs ------------------------ *)

\* an AuthResult whose session_url is set whatever with_session says
AuthResult_always_session(cfg, attributes) ==
    [ status |-> "Success",
      attributes |-> Some(attributes),
      session_url |-> Some(internal_url(cfg)
                           \o <<47, 115, 101, 115, 115, 105, 111, 110,
                                47, 117, 112, 100, 97, 116, 101>>) ]

\* id_contact_proto::AuthResult as user_oob and user_inline build it
AuthResult(cfg, attributes) ==
    [ status |-> "Success",
      attributes |-> Some(attributes),
      session_url |-> IF with_session(cfg)
                      THEN Some(internal_url(cfg)
                                \o <<47, 115, 101, 115, 115, 105, 111, 110,
                                     47, 117, 112, 100, 97, 116, 101>>)
                      ELSE None ]

\* id_contact_jwt::sign_and_encrypt_auth_result when it succeeds: a JWE made
\* with the encrypter around a JWS made with the signer around the payload
sign_and_encrypt_auth_result(auth_result, sgn, enc) ==
    [ jwe |-> enc, jws |-> sgn, payload |-> auth_result ]

\* the relying party's side: decrypt and verify a token with the matching keys
Decrypt(token) == token.payload

(* ------------------------------ requests ------------------------------ *)

Clients == 1..NClients

UrlChars == { <<117>>, <<63>>, <<195, 169>> }

\* the texts of at most n characters over "u", "?", "e-acute"
Urls(n) == { Flatten(cs) : cs \in SeqsUpTo(UrlChars, n) }

\* id_contact_proto::StartAuthRequest bodies relying parties send
StartAuthRequests(wide) ==
    IF wide
    THEN [ attributes : SeqsUpTo(AttrNames, MaxAttrs),
           continuation : Urls(MaxContLen),
           attr_url : {None} \cup { Some(u) : u \in Urls(MaxCbLen) } ]
    ELSE [ attributes : { <<>>, << <<97>> >>, << <<120>> >> },
           continuation : { <<117>> },
           attr_url : { None, Some(<<117>>) } ]

\* path segments a browser may send that no start_authentication produced:
\* "!" (not in the alphabet), "A" (bad length), "AB" (bad last symbol),
\* "dQ" (the text u, which is no JSON), "ww" (the byte C3, which is no UTF-8),
\* and the encodings of ["x"], ["a"], [ "a" ] and ["a","y","x"]
DirectAttrSegs ==
    { <<33>>, <<65>>, <<65, 66>>, encode_config(<<117>>), encode_config(<<195>>),
      encode_config(to_vec(<< <<120>> >>)), encode_config(to_vec(<< <<97>> >>)),
      encode_config(<<91, 32, 34, 97, 34, 32, 93>>),
      encode_config(to_vec(<< <<97>>, <<121>>, <<120>> >>)) }

\* "!", "AB", "A/B" (a path parameter is a String: the framework hands over
\* the segment percent-decoded, so "A%2FB" arrives as "A/B"), and the
\* encodings of the byte 0xC3 and of "u"
DirectUrlSegs ==
    { <<33>>, <<65, 66>>, <<65, 47, 66>>, encode_config(<<195>>),
      encode_config(<<117>>) }

\* text s cut at every byte sep
RECURSIVE Split(_, _, _, _)
Split(s, sep, i, cur) ==
    IF i > Len(s) THEN <<cur>>
    ELSE IF s[i] = sep THEN <<cur>> \o Split(s, sep, i + 1, <<>>)
    ELSE Split(s, sep, i + 1, Append(cur, s[i]))

ConfirmName == <<99, 111, 110, 102, 105, 114, 109>>
BrowserName == <<98, 114, 111, 119, 115, 101, 114>>

NoRoute == [handler |-> "none"]

\* the routes of main.rs on a GET of url: the handler and its path parameters.
\* A path with an empty segment is left to the framework and routed nowhere.
Route(cfg, url) ==
    LET su == server_url(cfg)
        path == IF IsPrefix(su, url) THEN SubSeq(url, Len(su) + 1, Len(url)) ELSE <<>>
        segs == Split(path, 47, 1, <<>>)
        n == Len(segs)
    IN  IF n \notin {4, 5} \/ segs[1] # <<>> \/ \E i \in 2..n : segs[i] = <<>>
        THEN NoRoute
        ELSE IF segs[2] = ConfirmName
        THEN IF n = 5
             THEN [handler |-> "confirm_oob", attributes |-> segs[3],
                   continuation |-> segs[4], attr_url |-> segs[5]]
             ELSE [handler |-> "confirm_ib", attributes |-> segs[3],
                   continuation |-> segs[4]]
        ELSE IF segs[2] = BrowserName
        THEN IF n = 5
             THEN [handler |-> "user_oob", attributes |-> segs[3],
                   continuation |-> segs[4], attr_url |-> segs[5]]
             ELSE [handler |-> "user_inline", attributes |-> segs[3],
                   continuation |-> segs[4]]
        ELSE NoRoute

(* -------------------------------- state ------------------------------- *)

VARIABLES
    config,   \* the managed Config (rocket().manage)
    active,   \* the clients that send requests in this run
    wide,     \* whether requests are drawn from the wide or the narrow sets
    pc,       \* per client: where its request's handler stands ("idle": none)
    req,      \* per client: the request being handled, or the last one handled
    loc,      \* per client: the handler's local variables
    resp,     \* per client: the response to its last request
    posts,    \* per client: the callback POSTs its current request has issued
    trace,    \* per client: the steps taken, in order, by its request and by
              \* the requests whose links led to it
    origin    \* per client: the StartAuthRequest whose links it is following

vars == <<config, active, wide, pc, req, loc, resp, posts, trace, origin>>

NoReq == [handler |-> "none"]
NoResp == [kind |-> "none"]
NoLoc == [x \in {} |-> 0]

\* main.rs 30-35: the Responder of Error hands every variant to rocket's
\* Debug responder, which logs the value and answers with status 500 and
\* nothing of the value in the response
respond_to(e) == [status |-> 500, body |-> "Internal Server Error"]

\* Result::Err(Error) through the Responder of Error
Failure(e) == [kind |-> "error", error |-> e, response |-> respond_to(e)]

Configs == { try_from(raw).val : raw \in { r \in RawConfigs : try_from(r).ok } }

InitClients ==
    /\ pc = [c \in Clients |-> "idle"]
    /\ req = [c \in Clients |-> NoReq]
    /\ loc = [c \in Clients |-> NoLoc]
    /\ resp = [c \in Clients |-> NoResp]
    /\ posts = [c \in Clients |-> <<>>]
    /\ trace = [c \in Clients |-> <<>>]
    /\ origin = [c \in Clients |-> None]

\* one client at a time, requests from the wide sets
Init ==
    /\ config \in Configs
    /\ active = {1}
    /\ wide = TRUE
    /\ InitClients

\* all clients at once, requests from the narrow sets, RSA keys (what the
\* key type changes is seen with one client)
InitConc ==
    /\ config \in { cfg \in Configs : signer(cfg).alg = "RS256" }
    /\ active = Clients
    /\ wide = FALSE
    /\ InitClients

\* client c has no response in hand: it is a relying party or a browser
\* that arrives with a request of its own making
Fresh(c) == req[c] = NoReq

\* the GET requests client c may send: the link of the response it holds
\* (client_url, or the page's dologin), or, arriving fresh, segments of its
\* own making
Incoming(c) ==
    LET link == IF resp[c].kind = "json" THEN Route(config, resp[c].client_url)
                ELSE IF resp[c].kind = "html" THEN Route(config, resp[c].dologin)
                ELSE NoRoute
        direct2 == [ handler : {"confirm_ib", "user_inline"},
                     attributes : DirectAttrSegs, continuation : DirectUrlSegs ]
        direct3 == [ handler : {"confirm_oob", "user_oob"},
                     attributes : DirectAttrSegs, continuation : DirectUrlSegs,
                     attr_url : DirectUrlSegs ]
    IN  { [route |-> link, via |-> "link"] }
        \cup (IF wide /\ Fresh(c)
              THEN { [route |-> r, via |-> "direct"] : r \in direct2 \cup direct3 }
              ELSE {})

Frame(c) == UNCHANGED <<config, active, wide>>

\* the handler of client c ends with response r
Finish(c, r) ==
    /\ resp' = [resp EXCEPT ![c] = r]
    /\ pc' = [pc EXCEPT ![c] = "idle"]

\* a request r of client c arrives, by a link of the response it holds or
\* fresh; its handler starts with step name
Arrive(c, r, via, o, name) ==
    /\ pc[c] = "idle"
    /\ req' = [req EXCEPT ![c] = r]
    /\ origin' = [origin EXCEPT ![c] = IF via = "link" THEN @ ELSE o]
    /\ trace' = [trace EXCEPT ![c] = IF via = "link" THEN Append(@, name) ELSE <<name>>]
    /\ posts' = [posts EXCEPT ![c] = <<>>]

Step(c, name) == trace' = [trace EXCEPT ![c] = Append(@, name)]

(* ------------------------ start_authentication ------------------------ *)

\* main.rs 246: config.verify_attributes(&request.attributes)?
start_authentication_verify(c) ==
    /\ pc[c] = "idle"
    /\ Fresh(c)
    /\ \E request \in StartAuthRequests(wide) :
        LET v == verify_attributes(config, request.attributes) IN
        /\ Arrive(c, [handler |-> "start_authentication", body |-> request],
                  "fresh", Some(request), "verify")
        /\ loc' = [loc EXCEPT ![c] = NoLoc]
        /\ IF v.ok
           THEN /\ pc' = [pc EXCEPT ![c] = "start_encode"]
                /\ resp' = [resp EXCEPT ![c] = NoResp]
           ELSE Finish(c, Failure([variant |-> "Config", cause |-> v.err]))
        /\ Frame(c)

\* main.rs 248-250: the attributes and continuation segments
start_authentication_encode(c) ==
    /\ pc[c] = "start_encode"
    /\ loc' = [loc EXCEPT ![c] =
                 [ attributes |-> encode_config(to_vec(req[c].body.attributes)),
                   continuation |-> encode_config(req[c].body.continuation) ]]
    /\ pc' = [pc EXCEPT ![c] = "start_respond"]
    /\ Step(c, "encode")
    /\ UNCHANGED <<req, resp, posts, origin>>
    /\ Frame(c)

\* format!("{}/confirm/{}/{}/{}") and format!("{}/confirm/{}/{}")
ClientUrl(cfg, attributes, continuation, attr_url) ==
    server_url(cfg) \o <<47>> \o ConfirmName \o <<47>> \o attributes
        \o <<47>> \o continuation
        \o (IF attr_url.some THEN <<47>> \o encode_config(attr_url.val) ELSE <<>>)

\* main.rs 252-273: the attr_url segment, if any, and the client_url
start_authentication_respond(c) ==
    /\ pc[c] = "start_respond"
    /\ Finish(c, [ kind |-> "json",
                   client_url |-> ClientUrl(config, loc[c].attributes,
                                            loc[c].continuation,
                                            req[c].body.attr_url) ])
    /\ Step(c, "respond")
    /\ UNCHANGED <<req, loc, posts, origin>>
    /\ Frame(c)

(* ---------------------- confirm_oob, confirm_ib ----------------------- *)

\* ConfirmTemplate { dologin }.render(): the confirmation page, whose one
\* link is dologin
render(dologin) == [kind |-> "html", dologin |-> dologin]

\* the link with the last two segments in the other order
DoLoginOob_swapped(cfg, attributes, continuation, attr_url) ==
    server_url(cfg) \o <<47>> \o BrowserName \o <<47>> \o attributes
        \o <<47>> \o attr_url \o <<47>> \o continuation

\* format!("{}/browser/{}/{}/{}")
DoLoginOob(cfg, attributes, continuation, attr_url) ==
    server_url(cfg) \o <<47>> \o BrowserName \o <<47>> \o attributes
        \o <<47>> \o continuation \o <<47>> \o attr_url

\* format!("{}/browser/{}/{}")
DoLoginIb(cfg, attributes, continuation) ==
    server_url(cfg) \o <<47>> \o BrowserName \o <<47>> \o attributes
        \o <<47>> \o continuation

\* main.rs 111-129
confirm_oob(c) ==
    /\ pc[c] = "idle"
    /\ \E r \in Incoming(c) :
        /\ r.route.handler = "confirm_oob"
        /\ Arrive(c, r.route, r.via, None, "confirm")
        /\ loc' = [loc EXCEPT ![c] = NoLoc]
        /\ Finish(c, render(DoLoginOob(config, r.route.attributes,
                                        r.route.continuation, r.route.attr_url)))
        /\ Frame(c)

\* main.rs 131-147
confirm_ib(c) ==
    /\ pc[c] = "idle"
    /\ \E r \in Incoming(c) :
        /\ r.route.handler = "confirm_ib"
        /\ Arrive(c, r.route, r.via, None, "confirm")
        /\ loc' = [loc EXCEPT ![c] = NoLoc]
        /\ Finish(c, render(DoLoginIb(config, r.route.attributes,
                                       r.route.continuation)))
        /\ Frame(c)

(* --------------------------- session_update --------------------------- *)

\* id_contact_proto::SessionActivity values of the type query field
SessionActivities == {"user_active", "user_timeout", "end"}

\* session_update switching the session URL off when told of a session's end
session_update_recording(c) ==
    /\ pc[c] = "idle"
    /\ Fresh(c)
    /\ \E typeval \in SessionActivities :
        /\ Arrive(c, [handler |-> "session_update", typeval |-> typeval],
                  "fresh", None, "log")
        /\ loc' = [loc EXCEPT ![c] = NoLoc]
        /\ Finish(c, [kind |-> "empty"])
        /\ config' = [config EXCEPT !.with_session = @ /\ typeval # "end"]
        /\ UNCHANGED <<active, wide>>

\* main.rs 149-152: the activity is printed; the response is empty
session_update(c) ==
    /\ pc[c] = "idle"
    /\ Fresh(c)
    /\ \E typeval \in SessionActivities :
        /\ Arrive(c, [handler |-> "session_update", typeval |-> typeval],
                  "fresh", None, "log")
        /\ loc' = [loc EXCEPT ![c] = NoLoc]
        /\ Finish(c, [kind |-> "empty"])
        /\ Frame(c)

(* ----------------------- user_oob, user_inline ------------------------ *)

Delivering(c) == req[c].handler \in {"user_oob", "user_inline"}

\* the handler of client c returns Err(e) through ?
Fail(c, e) == Finish(c, Failure(e))

\* main.rs 161-162 and 206-207: the attributes segment to Vec<String>
deliver_decode_attributes(c) ==
    /\ pc[c] = "idle"
    /\ \E r \in Incoming(c) :
        LET d == decode_config(r.route.attributes)
            j == from_slice(d.val)
        IN
        /\ r.route.handler \in {"user_oob", "user_inline"}
        /\ Arrive(c, r.route, r.via, None, "decode_attributes")
        /\ IF ~d.ok THEN
               /\ Fail(c, [variant |-> "Decode"])
               /\ loc' = [loc EXCEPT ![c] = NoLoc]
           ELSE IF ~j.ok THEN
               /\ Fail(c, [variant |-> "Json"])
               /\ loc' = [loc EXCEPT ![c] = NoLoc]
           ELSE
               /\ loc' = [loc EXCEPT ![c] = [attributes |-> j.val]]
               /\ pc' = [pc EXCEPT ![c] = "map_attributes"]
               /\ resp' = [resp EXCEPT ![c] = NoResp]
        /\ Frame(c)

\* main.rs 163 and 208: config.map_attributes(&attributes)?
deliver_map_attributes(c) ==
    LET m == map_attributes(config, loc[c].attributes) IN
    /\ pc[c] = "map_attributes"
    /\ Step(c, "map_attributes")
    /\ IF m.ok
       THEN /\ loc' = [loc EXCEPT ![c] = [attributes |-> m.val]]
            /\ pc' = [pc EXCEPT ![c] = "build"]
            /\ UNCHANGED resp
       ELSE /\ Fail(c, [variant |-> "Config", cause |-> m.err])
            /\ UNCHANGED loc
    /\ UNCHANGED <<req, posts, origin>>
    /\ Frame(c)

\* the deliver handlers passing the AuthResult on without protecting it
deliver_build_unprotected(c) ==
    /\ pc[c] = "build"
    /\ Step(c, "build")
    /\ loc' = [loc EXCEPT ![c] =
                 [auth_result |-> AuthResult(config, loc[c].attributes)]]
    /\ pc' = [pc EXCEPT ![c] = "decode_continuation"]
    /\ UNCHANGED <<req, resp, posts, origin>>
    /\ Frame(c)

\* the deliver handlers building the AuthResult from a buffer that the
\* requests in flight share
deliver_build_shared(c) ==
    /\ pc[c] = "build"
    /\ Step(c, "build")
    /\ \E d \in { x \in Clients : pc[x] = "build" } :
         loc' = [loc EXCEPT ![c] =
                   [auth_result |-> AuthResult(config, loc[d].attributes)]]
    /\ pc' = [pc EXCEPT ![c] = "protect"]
    /\ UNCHANGED <<req, resp, posts, origin>>
    /\ Frame(c)

\* main.rs 164-172 and 209-217: the AuthResult
deliver_build(c) ==
    /\ pc[c] = "build"
    /\ Step(c, "build")
    /\ loc' = [loc EXCEPT ![c] =
                 [auth_result |-> AuthResult(config, loc[c].attributes)]]
    /\ pc' = [pc EXCEPT ![c] = "protect"]
    /\ UNCHANGED <<req, resp, posts, origin>>
    /\ Frame(c)

\* main.rs 173-174 and 218-219: sign_and_encrypt_auth_result(..)?, which the
\* library may fail
deliver_protect(c) ==
    /\ pc[c] = "protect"
    /\ Step(c, "protect")
    /\ \E done \in BOOLEAN :
         IF done
         THEN /\ loc' = [loc EXCEPT ![c] =
                           [auth_result |->
                              sign_and_encrypt_auth_result(loc[c].auth_result,
                                                           signer(config),
                                                           encrypter(config))]]
              /\ pc' = [pc EXCEPT ![c] = "decode_continuation"]
              /\ UNCHANGED resp
         ELSE /\ Fail(c, [variant |-> "Jwt"])
              /\ UNCHANGED loc
    /\ UNCHANGED <<req, posts, origin>>
    /\ Frame(c)

\* a segment to text: base64::decode_config(..)? then std::str::from_utf8(..)?
DecodeText(seg) ==
    LET d == decode_config(seg) IN
    IF ~d.ok THEN Err([variant |-> "Decode"])
    ELSE IF ~from_utf8(d.val).ok THEN Err([variant |-> "Utf"])
    ELSE Ok(from_utf8(d.val).val)

\* main.rs 176-177 and 221-222: the continuation segment to text
deliver_decode_continuation(c) ==
    LET t == DecodeText(req[c].continuation) IN
    /\ pc[c] = "decode_continuation"
    /\ Step(c, "decode_continuation")
    /\ IF t.ok
       THEN /\ loc' = [loc EXCEPT ![c] = @ @@ [continuation |-> t.val]]
            /\ pc' = [pc EXCEPT ![c] =
                        IF req[c].handler = "user_oob" THEN "decode_attr_url"
                        ELSE "redirect_inline"]
            /\ UNCHANGED resp
       ELSE /\ Fail(c, t.err)
            /\ UNCHANGED loc
    /\ UNCHANGED <<req, posts, origin>>
    /\ Frame(c)

\* where the browser is sent: text, then the token's compact form if there is one
Redirect(text, token) == [kind |-> "redirect", text |-> text, token |-> token]

\* the inline location with "?result=" whatever the continuation holds
InlineLocation_always_question(continuation) ==
    continuation \o <<63, 114, 101, 115, 117, 108, 116, 61>>

\* main.rs 228-238: "{}&result={}" if the continuation contains '?', else
\* "{}?result={}"
InlineLocation(continuation) ==
    IF Contains(continuation, 63)
    THEN continuation \o <<38, 114, 101, 115, 117, 108, 116, 61>>
    ELSE continuation \o <<63, 114, 101, 115, 117, 108, 116, 61>>

\* main.rs 224-238
user_inline_redirect(c) ==
    /\ pc[c] = "redirect_inline"
    /\ Step(c, "redirect")
    /\ Finish(c, Redirect(InlineLocation(loc[c].continuation),
                          Some(loc[c].auth_result)))
    /\ UNCHANGED <<req, loc, posts, origin>>
    /\ Frame(c)

\* user_oob going on to the POST with whatever text the attr_url segment gives
user_oob_decode_attr_url_lossy(c) ==
    LET t == DecodeText(req[c].attr_url) IN
    /\ pc[c] = "decode_attr_url"
    /\ Step(c, "decode_attr_url")
    /\ loc' = [loc EXCEPT ![c] = @ @@ [attr_url |-> IF t.ok THEN t.val ELSE <<>>]]
    /\ pc' = [pc EXCEPT ![c] = "post"]
    /\ UNCHANGED <<req, resp, posts, origin>>
    /\ Frame(c)

\* main.rs 179-180: the attr_url segment to text
user_oob_decode_attr_url(c) ==
    LET t == DecodeText(req[c].attr_url) IN
    /\ pc[c] = "decode_attr_url"
    /\ Step(c, "decode_attr_url")
    /\ IF t.ok
       THEN /\ loc' = [loc EXCEPT ![c] = @ @@ [attr_url |-> t.val]]
            /\ pc' = [pc EXCEPT ![c] = "post"]
            /\ UNCHANGED resp
       ELSE /\ Fail(c, t.err)
            /\ UNCHANGED loc
    /\ UNCHANGED <<req, posts, origin>>
    /\ Frame(c)

\* user_oob sending its POST without awaiting it
user_oob_post_detached(c) ==
    /\ pc[c] = "post"
    /\ Step(c, "post")
    /\ posts' = [posts EXCEPT ![c] =
                   Append(@, [ url |-> loc[c].attr_url,
                               content_type |-> "application/jwt",
                               body |-> loc[c].auth_result ])]
    /\ pc' = [pc EXCEPT ![c] = "redirect_oob"]
    /\ UNCHANGED <<req, loc, resp, origin>>
    /\ Frame(c)

\* main.rs 182-188: the POST of the token to attr_url is sent and awaited
user_oob_post(c) ==
    /\ pc[c] = "post"
    /\ Step(c, "post")
    /\ posts' = [posts EXCEPT ![c] =
                   Append(@, [ url |-> loc[c].attr_url,
                               content_type |-> "application/jwt",
                               body |-> loc[c].auth_result ])]
    /\ pc' = [pc EXCEPT ![c] = "await"]
    /\ UNCHANGED <<req, loc, resp, origin>>
    /\ Frame(c)

\* the awaited send completes; user_oob sends again after an error
post_completes_retry(c) ==
    /\ pc[c] = "await"
    /\ \E outcome \in {"Ok", "Err"} :
         /\ loc' = [loc EXCEPT ![c] = [x \in DOMAIN @ \cup {"result"} |->
                                        IF x = "result" THEN outcome ELSE @[x]]]
         /\ Step(c, IF outcome = "Ok" THEN "post_ok" ELSE "post_err")
         /\ pc' = [pc EXCEPT ![c] = IF outcome = "Ok" THEN "redirect_oob" ELSE "post"]
    /\ UNCHANGED <<req, resp, posts, origin>>
    /\ Frame(c)

\* main.rs 182-188: .send().await completes, with a response or with an error
post_completes(c) ==
    /\ pc[c] = "await"
    /\ \E outcome \in {"Ok", "Err"} :
         /\ loc' = [loc EXCEPT ![c] = @ @@ [result |-> outcome]]
         /\ Step(c, IF outcome = "Ok" THEN "post_ok" ELSE "post_err")
    /\ pc' = [pc EXCEPT ![c] = "redirect_oob"]
    /\ UNCHANGED <<req, resp, posts, origin>>
    /\ Frame(c)

\* user_oob returning the error of a failed POST instead of printing it
user_oob_redirect_gated(c) ==
    /\ pc[c] = "redirect_oob"
    /\ Step(c, "redirect")
    /\ IF loc[c].result = "Ok"
       THEN Finish(c, Redirect(loc[c].continuation, None))
       ELSE Fail(c, [variant |-> "Reqwest"])
    /\ UNCHANGED <<req, loc, posts, origin>>
    /\ Frame(c)

\* main.rs 189-197: the result is printed, then Redirect::to(continuation)
user_oob_redirect(c) ==
    /\ pc[c] = "redirect_oob"
    /\ Step(c, "redirect")
    /\ Finish(c, Redirect(loc[c].continuation, None))
    /\ UNCHANGED <<req, loc, posts, origin>>
    /\ Frame(c)

(* ----------------------------- behaviours ----------------------------- *)

\* client c drops the response it holds; the next request on this connection
\* is a fresh one. The server keeps nothing of a finished request.
disconnect(c) ==
    /\ pc[c] = "idle"
    /\ ~Fresh(c)
    /\ req' = [req EXCEPT ![c] = NoReq]
    /\ loc' = [loc EXCEPT ![c] = NoLoc]
    /\ resp' = [resp EXCEPT ![c] = NoResp]
    /\ posts' = [posts EXCEPT ![c] = <<>>]
    /\ trace' = [trace EXCEPT ![c] = <<>>]
    /\ origin' = [origin EXCEPT ![c] = None]
    /\ UNCHANGED pc
    /\ Frame(c)

Next ==
    \E c \in active :
        \/ start_authentication_verify(c)
        \/ start_authentication_encode(c)
        \/ start_authentication_respond(c)
        \/ confirm_oob(c)
        \/ confirm_ib(c)
        \/ session_update(c)
        \/ deliver_decode_attributes(c)
        \/ deliver_map_attributes(c)
        \/ deliver_build(c)
        \/ deliver_protect(c)
        \/ deliver_decode_continuation(c)
        \/ user_inline_redirect(c)
        \/ user_oob_decode_attr_url(c)
        \/ user_oob_post(c)
        \/ post_completes(c)
        \/ user_oob_redirect(c)
        \/ disconnect(c)

Spec == Init /\ [][Next]_vars

SpecConc == InitConc /\ [][Next]_vars

\* the steps the handler of client c takes by itself once its request has
\* arrived: the straight-line code between two awaits, which the runtime runs
\* whenever it can. The arrival of a request and the completion of the POST
\* (the client is reqwest::Client::new(), main.rs 182, with no timeout set)
\* are the outside's to take or not.
HandlerStep(c) ==
    \/ start_authentication_encode(c)
    \/ start_authentication_respond(c)
    \/ deliver_map_attributes(c)
    \/ deliver_build(c)
    \/ deliver_protect(c)
    \/ deliver_decode_continuation(c)
    \/ user_inline_redirect(c)
    \/ user_oob_decode_attr_url(c)
    \/ user_oob_post(c)
    \/ user_oob_redirect(c)

SpecLive == Init /\ [][Next]_vars /\ \A c \in Clients : WF_vars(HandlerStep(c))

(* ------------------------------- claims ------------------------------- *)

\* the names of a list, as a set
Names(list) == { list[i] : i \in 1..Len(list) }

\* some name of the list is no key of the catalog
HasUnknown(list) == \E n \in Names(list) : n \notin DOMAIN config.attributes

IsStart(c) == req[c].handler = "start_authentication"

\* the handler of client c has returned
Returned(c) == pc[c] = "idle" /\ req[c] # NoReq

\* the handler of client c has returned Err(Error::Config(UnknownAttribute(_)))
RejectedUnknown(c) ==
    /\ Returned(c)
    /\ resp[c].kind = "error"
    /\ resp[c].error.variant = "Config"
    /\ resp[c].error.cause.variant = "UnknownAttribute"

\* C1: a start_authentication request with a name outside the catalog makes
\* verify_attributes and map_attributes fail with UnknownAttribute, and the
\* handler returns that failure at once: nothing is encoded and no client_url
\* is produced.
C1_UnknownAttributeRejected ==
    \A c \in Clients :
        (IsStart(c) /\ HasUnknown(req[c].body.attributes)) =>
            LET v == verify_attributes(config, req[c].body.attributes)
                m == map_attributes(config, req[c].body.attributes)
            IN  /\ ~v.ok /\ v.err.variant = "UnknownAttribute"
                /\ ~m.ok /\ m.err.variant = "UnknownAttribute"
                /\ RejectedUnknown(c)
                /\ loc[c] = NoLoc
                /\ trace[c] = <<"verify">>

\* a rejected start whose unknown name comes after a known one
C1_Witness ==
    \E c \in Clients :
        /\ IsStart(c)
        /\ Len(req[c].body.attributes) = 2
        /\ req[c].body.attributes[1] \in DOMAIN config.attributes
        /\ req[c].body.attributes[2] \notin DOMAIN config.attributes
        /\ RejectedUnknown(c)

\* the attribute list a deliver request carries, once its segment is decoded
DecodedList(c) == from_slice(decode_config(req[c].attributes).val).val

\* m holds exactly the catalog's entries for the names of list
ExactlyCatalog(m, list) ==
    /\ DOMAIN m = Names(list)
    /\ \A k \in Names(list) : m[k] = config.attributes[k]

\* C2: on a list of catalog keys, repeated or not, verify_attributes succeeds
\* and map_attributes returns the mapping whose keys are the names of the list
\* and whose values are the catalog's: start_authentication gets past its
\* verification and the deliver handlers hold that mapping after theirs.
C2_KnownAttributesResolve ==
    \A c \in Clients :
        /\ (IsStart(c) /\ ~HasUnknown(req[c].body.attributes)) =>
              /\ verify_attributes(config, req[c].body.attributes).ok
              /\ map_attributes(config, req[c].body.attributes).ok
              /\ ExactlyCatalog(map_attributes(config, req[c].body.attributes).val,
                                req[c].body.attributes)
              /\ resp[c].kind # "error"
        /\ (Delivering(c) /\ pc[c] = "build") =>
              /\ ~HasUnknown(DecodedList(c))
              /\ ExactlyCatalog(loc[c].attributes, DecodedList(c))
        /\ (Delivering(c) /\ RejectedUnknown(c)) => HasUnknown(DecodedList(c))

\* a deliver handler holding the mapping of a list that repeats a name
C2_Witness ==
    \E c \in Clients :
        /\ Delivering(c)
        /\ pc[c] = "build"
        /\ Len(DecodedList(c)) = 2
        /\ DecodedList(c)[1] = DecodedList(c)[2]
        /\ Cardinality(DOMAIN loc[c].attributes) = 1

IsOob(c) == req[c].handler = "user_oob"
IsInline(c) == req[c].handler = "user_inline"

\* C3: once user_oob has sent its POST, it returns a redirect to the decoded
\* continuation, nothing appended, whether the POST succeeded or failed: a
\* failed POST never becomes an error response.
C3_OobRedirectsWhateverThePost ==
    \A c \in Clients :
        (IsOob(c) /\ posts[c] # <<>>) =>
            /\ resp[c].kind # "error"
            /\ Returned(c) =>
                  /\ resp[c].kind = "redirect"
                  /\ resp[c].text = from_utf8(decode_config(req[c].continuation).val).val
                  /\ resp[c].token = None

\* user_oob has returned after a POST that failed
C3_Witness ==
    \E c \in Clients :
        /\ IsOob(c)
        /\ Returned(c)
        /\ posts[c] # <<>>
        /\ loc[c].result = "Err"
        /\ resp[c].kind = "redirect"

\* C4: user_inline redirects to the decoded continuation followed by
\* "?result=" and the token when the continuation holds no '?', and by
\* "&result=" and the token when it holds one.
C4_InlineAppendsResult ==
    \A c \in Clients :
        (IsInline(c) /\ Returned(c) /\ resp[c].kind = "redirect") =>
            LET cont == from_utf8(decode_config(req[c].continuation).val).val
                n == Len(cont)
                tail == SubSeq(resp[c].text, n + 1, Len(resp[c].text))
            IN  /\ Len(resp[c].text) = n + 8
                /\ SubSeq(resp[c].text, 1, n) = cont
                /\ (63 \notin Names(cont)) => tail = <<63, 114, 101, 115, 117, 108, 116, 61>>
                /\ (63 \in Names(cont)) => tail = <<38, 114, 101, 115, 117, 108, 116, 61>>
                /\ resp[c].token = Some(loc[c].auth_result)
                /\ "jwe" \in DOMAIN loc[c].auth_result

\* user_inline has redirected to a continuation that holds a '?'
C4_Witness ==
    \E c \in Clients :
        /\ IsInline(c)
        /\ Returned(c)
        /\ resp[c].kind = "redirect"
        /\ 63 \in Names(from_utf8(decode_config(req[c].continuation).val).val)


\* every b in t has an a before it
Precedes(t, a, b) ==
    \A j \in 1..Len(t) : t[j] = b => \E i \in 1..(j - 1) : t[i] = a

\* no b in t has an a after it
NeverAfter(t, a, b) ==
    \A i \in 1..Len(t) : \A j \in (i + 1)..Len(t) : ~(t[i] = b /\ t[j] = a)

\* the handler of client c holds a protected token
HoldsToken(c) ==
    /\ "auth_result" \in DOMAIN loc[c]
    /\ "jwe" \in DOMAIN loc[c].auth_result

\* C5: the steps of a request's lifecycle come in one order: verification
\* before encoding, encoding before the client_url and before the confirmation
\* page of its link, the AuthResult before its protection, and the protection
\* before the POST and before the redirect; a POST or a redirect happens only
\* with a protected token in hand.
C5_StepsInOrder ==
    \A c \in Clients :
        LET t == trace[c] IN
        /\ Precedes(t, "verify", "encode")
        /\ Precedes(t, "encode", "respond")
        /\ NeverAfter(t, "encode", "confirm")
        /\ origin[c].some => Precedes(t, "encode", "confirm")
        /\ Precedes(t, "build", "protect")
        /\ Precedes(t, "protect", "post")
        /\ Precedes(t, "protect", "redirect")
        /\ (Delivering(c) /\ (posts[c] # <<>> \/ resp[c].kind = "redirect")) =>
              HoldsToken(c)

\* a lifecycle from start_authentication to the redirect of user_oob
C5_Witness ==
    \E c \in Clients :
        /\ origin[c].some
        /\ IsOob(c)
        /\ posts[c] # <<>>
        /\ resp[c].kind = "redirect"
        /\ Len(trace[c]) = 13

\* C6: user_oob sends one POST, to the decoded attr_url and with the token as
\* its body, and sees it complete before it returns its redirect: no redirect
\* is returned while the POST is unsent or pending.
C6_PostBeforeRedirect ==
    \A c \in Clients :
        IsOob(c) =>
            /\ pc[c] \in {"post", "await"} => resp[c].kind = "none"
            /\ resp[c].kind = "redirect" =>
                  /\ Len(posts[c]) = 1
                  /\ posts[c][1].body = loc[c].auth_result
                  /\ HoldsToken(c)
                  /\ posts[c][1].url = from_utf8(decode_config(req[c].attr_url).val).val
                  /\ "result" \in DOMAIN loc[c]
                  /\ \E i, j, k \in 1..Len(trace[c]) :
                        /\ i < j /\ j < k
                        /\ trace[c][i] = "post"
                        /\ trace[c][j] \in {"post_ok", "post_err"}
                        /\ trace[c][k] = "redirect"

\* user_oob has returned its redirect
C6_Witness ==
    \E c \in Clients :
        /\ IsOob(c)
        /\ Returned(c)
        /\ resp[c].kind = "redirect"
        /\ loc[c].result = "Ok"

\* the path segments of a URL of this server, after the handler's name
SegmentsOf(url) ==
    LET path == SubSeq(url, Len(server_url(config)) + 1, Len(url))
        segs == Split(path, 47, 1, <<>>)
    IN  SubSeq(segs, 3, Len(segs))

\* C7: what the deliver handlers decode from the segments start_authentication
\* encoded is what the relying party sent: the attribute list, the
\* continuation and the attr_url; decoding those segments never fails.
C7_RoundTrip ==
    \A c \in Clients :
        /\ (IsStart(c) /\ resp[c].kind = "json") =>
              LET segs == SegmentsOf(resp[c].client_url)
                  b == req[c].body
              IN  /\ Len(segs) = IF b.attr_url.some THEN 3 ELSE 2
                  /\ decode_config(segs[1]).ok
                  /\ from_slice(decode_config(segs[1]).val) = Ok(b.attributes)
                  /\ DecodeText(segs[2]) = Ok(b.continuation)
                  /\ b.attr_url.some => DecodeText(segs[3]) = Ok(b.attr_url.val)
        /\ (Delivering(c) /\ origin[c].some) =>
              /\ pc[c] = "map_attributes" => loc[c].attributes = origin[c].val.attributes
              /\ "continuation" \in DOMAIN loc[c] =>
                    loc[c].continuation = origin[c].val.continuation
              /\ "attr_url" \in DOMAIN loc[c] =>
                    origin[c].val.attr_url = Some(loc[c].attr_url)
              /\ resp[c].kind = "error" =>
                    resp[c].error.variant \notin {"Decode", "Json", "Utf"}

\* user_oob has decoded the segments of a request for "\"" and "a", with a
\* continuation of e-acute and '?' and an attr_url of e-acute
C7_Witness ==
    \E c \in Clients :
        /\ IsOob(c)
        /\ origin[c].some
        /\ pc[c] = "post"
        /\ origin[c].val.attributes = << <<34>>, <<97>> >>
        /\ loc[c].continuation = <<195, 169, 63>>
        /\ loc[c].attr_url = <<195, 169>>

IsConfirm(c) == req[c].handler \in {"confirm_oob", "confirm_ib"}

Delivered(c) ==
    (IF resp[c].kind = "redirect" /\ resp[c].token.some THEN {resp[c].token.val} ELSE {})
    \cup { posts[c][i].body : i \in 1..Len(posts[c]) }

\* C9: a deliver request that follows the links of a start_authentication for
\* catalog names hands out, when it redirects, a token that protects an
\* AuthResult of status Success whose attributes are exactly the catalog's
\* values for the names requested; it fails only if the protection fails.
C9_EndToEnd ==
    \A c \in Clients :
        (Delivering(c) /\ origin[c].some) =>
            /\ resp[c].kind = "redirect" => Delivered(c) # {}
            /\ resp[c].kind = "error" => resp[c].error.variant = "Jwt"
            /\ \A tok \in Delivered(c) :
                  /\ Decrypt(tok).status = "Success"
                  /\ Decrypt(tok).attributes.some
                  /\ DOMAIN Decrypt(tok).attributes.val = Names(origin[c].val.attributes)
                  /\ \A k \in Names(origin[c].val.attributes) :
                        Decrypt(tok).attributes.val[k] = Catalog[k]
                  /\ tok.jwe = config.encrypter
                  /\ tok.jws = config.signer

\* user_inline has redirected with the token for a request of "a" and "\""
C9_Witness ==
    \E c \in Clients :
        /\ IsInline(c)
        /\ origin[c].some
        /\ origin[c].val.attributes = << <<97>>, <<34>> >>
        /\ resp[c].kind = "redirect"
        /\ resp[c].token.some

\* the AuthResult the handler of client c has built, protected or not yet
Built(c) ==
    IF HoldsToken(c) THEN Decrypt(loc[c].auth_result) ELSE loc[c].auth_result

\* C10: every AuthResult the deliver handlers build carries the session URL,
\* the configured internal base URL followed by "/session/update", exactly
\* when with_session is set; otherwise the field is None.
C10_SessionUrlIffWithSession ==
    \A c \in Clients :
        (Delivering(c) /\ "auth_result" \in DOMAIN loc[c]) =>
            /\ config.with_session =>
                  Built(c).session_url =
                      Some(InternalUrl \o <<47, 115, 101, 115, 115, 105, 111, 110,
                                            47, 117, 112, 100, 97, 116, 101>>)
            /\ ~config.with_session => Built(c).session_url = None
            /\ \A tok \in Delivered(c) : Decrypt(tok).session_url = Built(c).session_url

\* user_inline has redirected with a token built without with_session
C10_Witness ==
    \E c \in Clients :
        /\ IsInline(c)
        /\ ~config.with_session
        /\ resp[c].kind = "redirect"
        /\ resp[c].token.some
        /\ Decrypt(resp[c].token.val).session_url = None

(* ------------------------- failure responses -------------------------- *)

\* the responses in which the failures of the deliver handlers surface
DeliverFailureResponses ==
    { respond_to([variant |-> v]) : v \in {"Decode", "Json", "Utf", "Jwt"} }
    \cup { respond_to([variant |-> "Config", cause |-> UnknownAttribute(a)]) :
            a \in AttrNames }

\* C11: a start_authentication request rejected for an unknown attribute is
\* answered with a client-facing failure (a client-error status) that differs
\* from every response in which a failure of the deliver handlers surfaces.
C11_StartFailureDistinguishable ==
    \A c \in Clients :
        (IsStart(c) /\ RejectedUnknown(c)) =>
            /\ resp[c].response.status \in 400..499
            /\ resp[c].response \notin DeliverFailureResponses

(* ------------------------------ no retries ----------------------------- *)

\* C12: a user_oob request sends at most one POST, whether the POST succeeds
\* or fails, and no other request sends any.
C12_AtMostOnePost ==
    \A c \in Clients :
        /\ Len(posts[c]) <= 1
        /\ ~IsOob(c) => posts[c] = <<>>
        /\ (IsOob(c) /\ "result" \in DOMAIN loc[c]) => Len(posts[c]) = 1

C12_Witness ==
    \E c \in Clients :
        /\ IsOob(c)
        /\ Returned(c)
        /\ Len(posts[c]) = 1
        /\ loc[c].result = "Err"
        /\ SubSeq(trace[c], Len(trace[c]) - 2, Len(trace[c]))
               = <<"post", "post_err", "redirect">>

(* ----------------------- requests side by side ------------------------ *)

\* the step in which the session_update request of client c is handled
SessionUpdateStep(c) ==
    /\ req[c] = NoReq
    /\ req'[c].handler = "session_update"

\* C13: a session_update request, whatever its activity and whatever the
\* other clients' requests are in the middle of, leaves the configuration
\* (catalog, keys, URLs, with_session) as it is and touches nothing of any
\* other request: its position, its data, its POSTs and its response stay
\* what they were; the caller gets an empty response and no POST is made.
C13_SessionUpdateChangesNothing ==
    [][ \A c \in Clients :
          SessionUpdateStep(c) =>
              /\ config' = config
              /\ resp'[c] = [kind |-> "empty"]
              /\ posts'[c] = <<>>
              /\ \A d \in Clients \ {c} :
                    /\ pc'[d] = pc[d]
                    /\ req'[d] = req[d]
                    /\ loc'[d] = loc[d]
                    /\ resp'[d] = resp[d]
                    /\ posts'[d] = posts[d] ]_vars

C13_Witness ==
    \E c, d \in Clients :
        /\ c # d
        /\ req[c].handler = "session_update"
        /\ req[c].typeval = "end"
        /\ Returned(c)
        /\ IsOob(d)
        /\ pc[d] = "await"

\* a response with the POSTs made for it
Outcome(r, p) == [resp |-> r, posts |-> p]

\* the outcomes request r can have under cfg when its handler runs from its
\* first step to its last with no other request in between
RunAlone(cfg, r) ==
    IF r.handler = "start_authentication" THEN
        LET v == verify_attributes(cfg, r.body.attributes) IN
        IF ~v.ok
        THEN { Outcome(Failure([variant |-> "Config", cause |-> v.err]), <<>>) }
        ELSE { Outcome([ kind |-> "json",
                         client_url |->
                             ClientUrl(cfg,
                                       encode_config(to_vec(r.body.attributes)),
                                       encode_config(r.body.continuation),
                                       r.body.attr_url) ], <<>>) }
    ELSE IF r.handler = "confirm_oob" THEN
        { Outcome(render(DoLoginOob(cfg, r.attributes, r.continuation,
                                    r.attr_url)), <<>>) }
    ELSE IF r.handler = "confirm_ib" THEN
        { Outcome(render(DoLoginIb(cfg, r.attributes, r.continuation)), <<>>) }
    ELSE IF r.handler = "session_update" THEN
        { Outcome([kind |-> "empty"], <<>>) }
    ELSE
        LET d == decode_config(r.attributes)
            j == from_slice(d.val)
            m == map_attributes(cfg, j.val)
            token == sign_and_encrypt_auth_result(AuthResult(cfg, m.val),
                                                  signer(cfg), encrypter(cfg))
            t == DecodeText(r.continuation)
            u == DecodeText(r.attr_url)
        IN
        IF ~d.ok THEN { Outcome(Failure([variant |-> "Decode"]), <<>>) }
        ELSE IF ~j.ok THEN { Outcome(Failure([variant |-> "Json"]), <<>>) }
        ELSE IF ~m.ok
        THEN { Outcome(Failure([variant |-> "Config", cause |-> m.err]), <<>>) }
        ELSE
            { Outcome(Failure([variant |-> "Jwt"]), <<>>) }
            \cup
            (IF ~t.ok THEN { Outcome(Failure(t.err), <<>>) }
             ELSE IF r.handler = "user_inline"
             THEN { Outcome(Redirect(InlineLocation(t.val), Some(token)), <<>>) }
             ELSE IF ~u.ok THEN { Outcome(Failure(u.err), <<>>) }
             ELSE { Outcome(Redirect(t.val, None),
                            << [ url |-> u.val,
                                 content_type |-> "application/jwt",
                                 body |-> token ] >>) })

\* what client c's request has come to is what it comes to alone
AsAlone(c) ==
    \/ req[c] = NoReq
    \/ /\ Returned(c)
       /\ Outcome(resp[c], posts[c]) \in RunAlone(config, req[c])
    \/ /\ ~Returned(c)
       /\ \E o \in RunAlone(config, req[c]) : IsPrefix(posts[c], o.posts)

\* C14: the configuration (catalog, keys) never changes after startup, and
\* under every interleaving of the steps of the clients' requests each
\* request ends with the response and the POSTs it has when handled alone.
C14_ConcurrentRequestsIndependent ==
    /\ [](\A c \in Clients : AsAlone(c))
    /\ [][config' = config]_vars

C14_Witness ==
    \E c, d \in Clients :
        /\ c # d
        /\ IsOob(c)
        /\ Returned(c)
        /\ resp[c].kind = "redirect"
        /\ Delivering(d)
        /\ pc[d] = "protect"
        /\ DecodedList(c) # DecodedList(d)

(* ----------------------------- termination ---------------------------- *)

\* C15: every request comes to its end: start_authentication with a
\* client_url or a failure, a deliver request with a redirect or a failure;
\* a user_oob whose POST has completed, with either outcome, goes on to its
\* redirect; and no request stays forever short of its end.
C15_EveryRequestTerminates ==
    /\ [](\A c \in Clients :
            Returned(c) =>
                /\ IsStart(c) => resp[c].kind \in {"json", "error"}
                /\ Delivering(c) => resp[c].kind \in {"redirect", "error"})
    /\ \A c \in Clients :
          (pc[c] = "redirect_oob") ~> (Returned(c) /\ resp[c].kind = "redirect")
    /\ \A c \in Clients : (pc[c] # "idle") ~> (pc[c] = "idle")

(* --------------------- the catalog at delivery time -------------------- *)

\* the attributes segment of client c's deliver request decodes to a list
ListOk(c) ==
    /\ decode_config(req[c].attributes).ok
    /\ from_slice(decode_config(req[c].attributes).val).ok

\* C16: a deliver request whose attributes segment decodes to a list with a
\* name outside the catalog, whether it follows a start_authentication or
\* not, fails at map_attributes with UnknownAttribute: no AuthResult is
\* built, no POST is sent and no redirect is returned. So no token handed
\* out, by POST or by redirect, carries a name outside the catalog or a value
\* other than the catalog's.
C16_DeliverRevalidates ==
    \A c \in Clients :
        /\ (Delivering(c) /\ ListOk(c) /\ HasUnknown(DecodedList(c))) =>
              /\ pc[c] \in {"map_attributes", "idle"}
              /\ Returned(c) => RejectedUnknown(c)
              /\ "auth_result" \notin DOMAIN loc[c]
              /\ posts[c] = <<>>
              /\ resp[c].kind # "redirect"
        /\ \A token \in Delivered(c) :
              LET a == Decrypt(token).attributes.val IN
              \A k \in DOMAIN a :
                  /\ k \in DOMAIN config.attributes
                  /\ a[k] = config.attributes[k]

C16_Witness ==
    \E c \in Clients :
        /\ IsOob(c)
        /\ ~origin[c].some
        /\ ListOk(c)
        /\ DecodedList(c) = << <<120>> >>
        /\ RejectedUnknown(c)
        /\ resp[c].error.cause.attribute = <<120>>
        /\ trace[c] = <<"decode_attributes", "map_attributes">>

(* ---------------------- failures before the POST ---------------------- *)

\* the steps of client c's current request
OwnSteps(c) ==
    LET t == trace[c]
        starts == { i \in 1..Len(t) : t[i] = "decode_attributes" }
    IN  IF starts = {} THEN <<>>
        ELSE SubSeq(t, CHOOSE i \in starts : \A j \in starts : j <= i, Len(t))

\* C17: in user_oob every step that can fail (the decoding of the attributes,
\* continuation and attr_url segments, map_attributes, sign and encrypt) comes
\* before the POST: a request that failed has sent no POST, a request that
\* has sent a POST does not fail and returns a redirect, and a continuation
\* or attr_url segment that does not decode to text makes the request fail
\* with nothing sent to the relying party.
C17_FailuresPrecedeThePost ==
    \A c \in Clients :
        IsOob(c) =>
            /\ resp[c].kind = "error" => posts[c] = <<>>
            /\ posts[c] # <<>> =>
                  /\ \A n \in {"decode_attributes", "map_attributes", "protect",
                                "decode_continuation", "decode_attr_url"} :
                        /\ Precedes(OwnSteps(c), n, "post")
                        /\ NeverAfter(OwnSteps(c), n, "post")
                  /\ Returned(c) => resp[c].kind = "redirect"
            /\ (Returned(c) /\ (~DecodeText(req[c].continuation).ok
                                 \/ ~DecodeText(req[c].attr_url).ok)) =>
                  /\ resp[c].kind = "error"
                  /\ posts[c] = <<>>

C17_Witness ==
    \E c \in Clients :
        /\ IsOob(c)
        /\ Returned(c)
        /\ DecodeText(req[c].continuation).ok
        /\ ~DecodeText(req[c].attr_url).ok
        /\ HoldsToken(c)
        /\ resp[c] = Failure(DecodeText(req[c].attr_url).err)
        /\ posts[c] = <<>>

(* --------------------------- the delivery mode ------------------------- *)

\* C18: the mode is fixed by start_authentication and kept by the links: the
\* client_url has three segments after /confirm exactly when the request
\* carried an attr_url and two otherwise; the link of confirm_oob's page leads
\* to user_oob and the link of confirm_ib's page to user_inline; so a deliver
\* request reached by the links of a start_authentication is user_oob exactly
\* when that request carried an attr_url.
C18_ModeFixedAtStart ==
    \A c \in Clients :
        /\ (IsStart(c) /\ resp[c].kind = "json") =>
              Len(SegmentsOf(resp[c].client_url))
                  = (IF req[c].body.attr_url.some THEN 3 ELSE 2)
        /\ req[c].handler = "confirm_oob" =>
              Route(config, resp[c].dologin).handler = "user_oob"
        /\ req[c].handler = "confirm_ib" =>
              Route(config, resp[c].dologin).handler = "user_inline"
        /\ (Delivering(c) /\ origin[c].some) =>
              (IsOob(c) <=> origin[c].val.attr_url.some)

\* the same along the links of a start_authentication only, whose segments
\* are base64url text and hold no "/": there the mode is kept
ModeKeptAlongLinks ==
    \A c \in Clients :
        /\ (IsStart(c) /\ resp[c].kind = "json") =>
              Len(SegmentsOf(resp[c].client_url))
                  = (IF req[c].body.attr_url.some THEN 3 ELSE 2)
        /\ (req[c].handler = "confirm_oob" /\ origin[c].some) =>
              /\ origin[c].val.attr_url.some
              /\ Route(config, resp[c].dologin).handler = "user_oob"
        /\ (req[c].handler = "confirm_ib" /\ origin[c].some) =>
              /\ ~origin[c].val.attr_url.some
              /\ Route(config, resp[c].dologin).handler = "user_inline"
        /\ (Delivering(c) /\ origin[c].some) =>
              (IsOob(c) <=> origin[c].val.attr_url.some)

(* ------------------------ the name in the failure ---------------------- *)

\* the position of the first name of list that is no key of the catalog
FirstUnknown(list) ==
    CHOOSE i \in 1..Len(list) :
        /\ list[i] \notin DOMAIN config.attributes
        /\ \A j \in 1..(i - 1) : list[j] \in DOMAIN config.attributes

\* the failure of f (verify_attributes or map_attributes) on list names the
\* first unknown name, is the failure on the list cut after that name, and
\* carries no mapping
NamesFirstUnknown(result, cut, list) ==
    /\ ~result.ok
    /\ result.err = UnknownAttribute(list[FirstUnknown(list)])
    /\ result = cut
    /\ DOMAIN result = {"ok", "err"}

\* C19: when verify_attributes or map_attributes fails, its UnknownAttribute
\* names the first name of the list, in the order of the request, that the
\* catalog lacks; the names after it play no part, and no mapping of the
\* names before it is returned or kept: the handler returns that failure.
C19_FirstUnknownNamed ==
    \A c \in Clients :
        /\ (IsStart(c) /\ HasUnknown(req[c].body.attributes)) =>
              LET list == req[c].body.attributes IN
              /\ NamesFirstUnknown(verify_attributes(config, list),
                                   verify_attributes(config,
                                       SubSeq(list, 1, FirstUnknown(list))),
                                   list)
              /\ Returned(c)
              /\ resp[c] = Failure([ variant |-> "Config",
                                      cause |-> UnknownAttribute(list[FirstUnknown(list)]) ])
        /\ (Delivering(c) /\ ListOk(c) /\ HasUnknown(DecodedList(c))) =>
              LET list == DecodedList(c) IN
              /\ NamesFirstUnknown(map_attributes(config, list),
                                   map_attributes(config,
                                       SubSeq(list, 1, FirstUnknown(list))),
                                   list)
              /\ loc[c] \in {NoLoc, [attributes |-> list]}
              /\ Returned(c) =>
                    resp[c] = Failure([ variant |-> "Config",
                                        cause |-> UnknownAttribute(list[FirstUnknown(list)]) ])

C19_Witness ==
    \E c \in Clients :
        /\ IsStart(c)
        /\ req[c].body.attributes = << <<121>>, <<120>> >>
        /\ RejectedUnknown(c)
        /\ resp[c].error.cause.attribute = <<121>>

====
